---------------------------- MODULE Spec2Model ----------------------------
(***************************************************************************)
(* Lending-library domain model of src/demo-updated.py: the MemberAccount  *)
(* ledger, the LoanItem hierarchy, the late-fee policies, the notifier and *)
(* payment ports, and the Library orchestrator.                            *)
(*                                                                         *)
(* Money.  Python floats are modelled as integers counting 0.005 pound     *)
(* (half a penny).  Every amount the model feeds in is a multiple of       *)
(* Eighth (0.125 pound), and the two rates 0.25 and 0.75 are too, so each  *)
(* sum, difference and product the code computes is a dyadic rational that *)
(* IEEE-754 doubles hold exactly: the integer arithmetic below is the      *)
(* float arithmetic of the program, not an approximation of it.  The one   *)
(* place where the program leaves the dyadic grid is round(x, 2) and the   *)
(* :.2f formatting, modelled by Round2 (round-half-even to whole pence).   *)
(***************************************************************************)
EXTENDS Integers, Sequences, FiniteSets, TLC

VARIABLES
    balance,    \* MemberAccount.__balance of every account object
    loans,      \* Library._loans: dict  member.name -> list of LoanItem
    policy,     \* Library.policy: the injected LateFeePolicy object
    call,       \* the most recent call made by the caller, with its arguments
    ret,        \* the value that call returned
    out,        \* the lines that call printed (notifier and payment adapter)
    hist,       \* the calls a scripted caller has made so far, oldest first
    charged,    \* account -> total of the fees return_item has charged it
    paid,       \* account -> total of the payments that went through for it
    lock,       \* account -> the thread holding the account's lock, or None
    thread      \* thread -> where it is in its add_charge or pay call

\* what callers add around the library and the accounts
aux == <<hist, charged, paid, lock, thread>>

vars == <<balance, loans, policy, call, ret, out, aux>>

----------------------------------------------------------------------------
(* Units (1 = 0.005 pound) and bounds *)

BookRate == 50      \* Book.late_fee_per_day: 0.25
DVDRate == 150      \* DVD.late_fee_per_day: 0.75

Penny == 2                  \* 0.01 pound, the resolution of round(x, 2)
Eighth == BookRate \div 2   \* 0.125 pound, the grid of the amounts fed in

MaxBalance == 6     \* the members never owe more than MaxBalance/8 pound together
MaxLoans == 3       \* the library holds at most this many loans at a time
MaxLate == 3        \* days_late ranges over -1 .. MaxLate
MaxAmount == 1      \* amounts: -1/8, 0, 1/8 .. MaxAmount/8 pound, and Overpay
MaxCharged == 6     \* a bookkeeping caller stops at MaxCharged/8 pound of fees in all
MaxFeeDays == 8     \* the fee functions are tabulated on -MaxFeeDays .. MaxFeeDays

----------------------------------------------------------------------------
(* Objects the caller constructs *)

Accounts == {"alice", "alice2", "bob"}      \* MemberAccount objects (identity)

\* every account filed under one name
AccountName_shared(m) == "Alice"

\* loans keyed by the account object instead of its name
AccountName_by_object(m) == m

AccountName(m) ==
    CASE m = "alice"  -> "Alice"
      [] m = "alice2" -> "Alice"
      [] m = "bob"    -> "Bob"

Members == {"alice", "bob"}                 \* the accounts one session serves

Items == {"moby", "matrix"}                 \* LoanItem objects (identity)

ItemClass(i) == IF i = "matrix" THEN "DVD" ELSE "Book"

title(i) ==
    CASE i = "matrix" -> "The Matrix"
      [] i = "web"    -> "Charlotte's Web"
      [] OTHER        -> "Moby Dick"

Catalogue == Items \cup {"web"}             \* a third item, for scripted callers

SameName == {"alice", "alice2"}             \* two account objects named Alice

max_days(i) == IF i = "matrix" THEN 7 ELSE 14

Policies == {"StandardPolicy", "ChildrenPolicy"}

DaysLate == {0 - 1} \cup (0 .. MaxLate)

FeeDays == (0 - MaxFeeDays) .. MaxFeeDays

Overpay == Eighth * (MaxBalance + 1)        \* more than any balance reached

Amounts == {0 - Eighth, 0, Overpay} \cup {Eighth * k : k \in 1 .. MaxAmount}

Owed == balance["alice"] + balance["alice2"] + balance["bob"]

Held == LET n(name) == IF name \in DOMAIN loans THEN Len(loans[name]) ELSE 0
        IN  n("Alice") + n("Bob")

None == "None"

NoCall == [op |-> "init", member |-> None, item |-> None, days |-> 0, amount |-> 0]

----------------------------------------------------------------------------
(* LoanItem hierarchy *)

\* a DVD that does not override the base rate
late_fee_per_day_flat(i) == BookRate

late_fee_per_day(i) == IF ItemClass(i) = "Book" THEN BookRate ELSE DVDRate

----------------------------------------------------------------------------
(* round(x, 2) and the :.2f format: round half to even, to whole pence.     *)
(* The result is in model units (a multiple of Penny).                      *)

Round2(x) ==
    LET q == x \div Penny
        r == x % Penny
    IN  IF r = 0 THEN x
        ELSE IF q % 2 = 0 THEN Penny * q ELSE Penny * (q + 1)

----------------------------------------------------------------------------
(* MemberAccount *)

\* add_charge that keeps the balance rounded to pence
MemberAccount_add_charge_rounded(b, amount) ==
    IF amount > 0 THEN Round2(b + amount) ELSE b

\* add_charge with the amount > 0 test lost
MemberAccount_add_charge_unguarded(b, amount) == b + amount

\* add_charge: the balance after the call (the method returns nothing)
MemberAccount_add_charge(b, amount) == IF amount > 0 THEN b + amount ELSE b

\* pay with the amount <= balance test lost
MemberAccount_pay_no_limit(b, amount) ==
    IF 0 < amount
    THEN [balance |-> b - amount, ret |-> TRUE]
    ELSE [balance |-> b, ret |-> FALSE]

\* pay with the 0 < amount test lost
MemberAccount_pay_no_sign(b, amount) ==
    IF amount <= b
    THEN [balance |-> b - amount, ret |-> TRUE]
    ELSE [balance |-> b, ret |-> FALSE]

\* pay: the balance after the call and the boolean it returns
MemberAccount_pay(b, amount) ==
    IF 0 < amount /\ amount <= b
    THEN [balance |-> b - amount, ret |-> TRUE]
    ELSE [balance |-> b, ret |-> FALSE]

\* the test of add_charge, on its own
add_charge_check(amount) == amount > 0

\* a test of pay that forgets the balance
pay_check_no_limit(b, amount) == 0 < amount

\* the test of pay, on its own
pay_check(b, amount) == 0 < amount /\ amount <= b

\* balance(): the read-only snapshot, rounded to 2 decimals
MemberAccount_balance(b) == Round2(b)

----------------------------------------------------------------------------
(* LateFeePolicy strategies *)

Max(a, b) == IF a >= b THEN a ELSE b

\* StandardPolicy without the days_late <= 0 branch
StandardPolicy_compute_fee_unclamped(i, days_late) == days_late * late_fee_per_day(i)

StandardPolicy_compute_fee(i, days_late) ==
    IF days_late <= 0 THEN 0 ELSE days_late * late_fee_per_day(i)

\* ChildrenPolicy without max(0, .)
ChildrenPolicy_compute_fee_unclamped(i, days_late) ==
    (days_late - 2) * late_fee_per_day(i)

ChildrenPolicy_compute_fee(i, days_late) ==
    LET days == Max(0, days_late - 2)
    IN  days * late_fee_per_day(i)

\* a dispatch that never looks at the policy object held
compute_fee_ignores_policy(p, i, days_late) == StandardPolicy_compute_fee(i, days_late)

compute_fee(p, i, days_late) ==
    IF p = "StandardPolicy" THEN StandardPolicy_compute_fee(i, days_late)
                            ELSE ChildrenPolicy_compute_fee(i, days_late)


----------------------------------------------------------------------------
(* Notifier / PaymentGateway adapters: what they print *)

Line(chan, to, kind, ttl, a, b) ==
    [chan |-> chan, to |-> to, kind |-> kind, title |-> ttl, a |-> a, b |-> b]

\* EmailNotifier.notify(member, message): one console line per call
EmailNotifier_notify(m, kind, ttl, a, b) == Line("Email", AccountName(m), kind, ttl, a, b)

\* a charge that debits the account itself instead of asking member.pay
ConsolePayment_charge_bypass(m, b, amount) ==
    [balance |-> b - amount,
     ret     |-> TRUE,
     line    |-> Line("Payment", AccountName(m), "OK", None, Round2(amount), 0)]

\* ConsolePayment.charge(member, amount): delegates to member.pay, prints
\* the amount (:.2f) with OK or FAILED, returns what pay returned
ConsolePayment_charge(m, b, amount) ==
    LET r == MemberAccount_pay(b, amount)
    IN  [balance |-> r.balance,
         ret     |-> r.ret,
         line    |-> Line("Payment", AccountName(m),
                          IF r.ret THEN "OK" ELSE "FAILED", None, Round2(amount), 0)]

----------------------------------------------------------------------------
(* Python list and dict helpers *)

\* item in items  (LoanItem defines no __eq__: equality is identity)
\* a membership test that looks at the head of the list only
Contains_head_only(items, x) == Len(items) > 0 /\ items[1] = x

Contains(items, x) == \E k \in 1 .. Len(items) : items[k] = x

\* a remove that drops every element equal to x
ListRemove_all(items, x) == SelectSeq(items, LAMBDA y : y # x)

\* a remove that drops the last element equal to x
ListRemove_last(items, x) ==
    LET k == CHOOSE j \in 1 .. Len(items) :
                 items[j] = x /\ \A h \in (j + 1) .. Len(items) : items[h] # x
    IN  SubSeq(items, 1, k - 1) \o SubSeq(items, k + 1, Len(items))

\* items.remove(x): drops the first element equal to x
ListRemove(items, x) ==
    LET k == CHOOSE j \in 1 .. Len(items) :
                 items[j] = x /\ \A h \in 1 .. (j - 1) : items[h] # x
    IN  SubSeq(items, 1, k - 1) \o SubSeq(items, k + 1, Len(items))

\* self._loans.get(name, [])
LoansGet(name) == IF name \in DOMAIN loans THEN loans[name] ELSE << >>

\* self._loans.setdefault(name, []).append(item): the dict afterwards
LoansAppend(name, item) ==
    IF name \in DOMAIN loans
    THEN [loans EXCEPT ![name] = Append(@, item)]
    ELSE loans @@ (name :> << item >>)

Call(op, m, item, days, amount) ==
    [op |-> op, member |-> m, item |-> item, days |-> days, amount |-> amount]

----------------------------------------------------------------------------
(* State after construction: fresh accounts, Library(EmailNotifier(),       *)
(* ConsolePayment(), policy) with an empty loans dict                       *)

Threads == {"t1", "t2"}

\* a thread that is in no call
Idle == [pc |-> "idle", op |-> None, m |-> None, amount |-> 0, tmp |-> 0]

AuxInit ==
    /\ hist = << >>
    /\ charged = [m \in Accounts |-> 0]
    /\ paid = [m \in Accounts |-> 0]
    /\ lock = [m \in Accounts |-> None]
    /\ thread = [t \in Threads |-> Idle]

Init ==
    /\ balance = [m \in Accounts |-> 0]
    /\ loans = << >>
    /\ policy \in Policies
    /\ call = NoCall
    /\ ret = None
    /\ out = << >>
    /\ AuxInit

----------------------------------------------------------------------------
(* MemberAccount methods called directly *)

add_charge(m, amount) ==
    /\ balance' = [balance EXCEPT ![m] = MemberAccount_add_charge(@, amount)]
    /\ call' = Call("add_charge", m, None, 0, amount)
    /\ ret' = None
    /\ out' = << >>
    /\ UNCHANGED <<loans, policy>>

pay(m, amount) ==
    /\ balance' = [balance EXCEPT ![m] = MemberAccount_pay(@, amount).balance]
    /\ call' = Call("pay", m, None, 0, amount)
    /\ ret' = MemberAccount_pay(balance[m], amount).ret
    /\ out' = << >>
    /\ UNCHANGED <<loans, policy>>

----------------------------------------------------------------------------
(* Library methods *)

checkout(m, item) ==
    /\ loans' = LoansAppend(AccountName(m), item)
    /\ out' = << EmailNotifier_notify(m, "checked_out", title(item), max_days(item), 0) >>
    /\ call' = Call("checkout", m, item, 0, 0)
    /\ ret' = None
    /\ UNCHANGED <<balance, policy>>

\* return_item that charges the fee only for an item it found on loan
return_item_charge_if_held(m, item, days_late) ==
    LET name  == AccountName(m)
        items == LoansGet(name)
        fee   == IF Contains(items, item)
                 THEN compute_fee(policy, item, days_late) ELSE 0
        after == MemberAccount_add_charge(balance[m], fee)
    IN  /\ loans' = IF Contains(items, item)
                    THEN [loans EXCEPT ![name] = ListRemove(items, item)]
                    ELSE loans
        /\ IF fee > 0
           THEN /\ balance' = [balance EXCEPT ![m] = after]
                /\ out' = << EmailNotifier_notify(m, "late_fee", title(item),
                                                  Round2(fee),
                                                  MemberAccount_balance(after)) >>
           ELSE /\ balance' = balance
                /\ out' = << EmailNotifier_notify(m, "no_fee", title(item), 0, 0) >>
        /\ call' = Call("return_item", m, item, days_late, 0)
        /\ ret' = None
        /\ UNCHANGED policy

\* return_item that notifies before it charges (stale balance in the message)
return_item_notify_first(m, item, days_late) ==
    LET name  == AccountName(m)
        items == LoansGet(name)
        fee   == compute_fee(policy, item, days_late)
        after == MemberAccount_add_charge(balance[m], fee)
    IN  /\ loans' = IF Contains(items, item)
                    THEN [loans EXCEPT ![name] = ListRemove(items, item)]
                    ELSE loans
        /\ IF fee > 0
           THEN /\ balance' = [balance EXCEPT ![m] = after]
                /\ out' = << EmailNotifier_notify(m, "late_fee", title(item),
                                                  Round2(fee),
                                                  MemberAccount_balance(balance[m])) >>
           ELSE /\ balance' = balance
                /\ out' = << EmailNotifier_notify(m, "no_fee", title(item), 0, 0) >>
        /\ call' = Call("return_item", m, item, days_late, 0)
        /\ ret' = None
        /\ UNCHANGED policy

return_item(m, item, days_late) ==
    LET name  == AccountName(m)
        items == LoansGet(name)
        fee   == compute_fee(policy, item, days_late)
        after == MemberAccount_add_charge(balance[m], fee)
    IN  /\ loans' = IF Contains(items, item)
                    THEN [loans EXCEPT ![name] = ListRemove(items, item)]
                    ELSE loans
        /\ IF fee > 0
           THEN /\ balance' = [balance EXCEPT ![m] = after]
                /\ out' = << EmailNotifier_notify(m, "late_fee", title(item),
                                                  Round2(fee),
                                                  MemberAccount_balance(after)) >>
           ELSE /\ balance' = balance
                /\ out' = << EmailNotifier_notify(m, "no_fee", title(item), 0, 0) >>
        /\ call' = Call("return_item", m, item, days_late, 0)
        /\ ret' = None
        /\ UNCHANGED policy

\* pay_balance that notifies only when the charge went through
pay_balance_silent_on_failure(m, amount) ==
    LET c == ConsolePayment_charge(m, balance[m], amount)
    IN  /\ balance' = [balance EXCEPT ![m] = c.balance]
        /\ out' = IF c.ret
                  THEN << c.line,
                          EmailNotifier_notify(m, "balance", None,
                                               MemberAccount_balance(c.balance), 0) >>
                  ELSE << c.line >>
        /\ call' = Call("pay_balance", m, None, 0, amount)
        /\ ret' = None
        /\ UNCHANGED <<loans, policy>>

pay_balance(m, amount) ==
    LET c == ConsolePayment_charge(m, balance[m], amount)
    IN  /\ balance' = [balance EXCEPT ![m] = c.balance]
        /\ out' = << c.line,
                     EmailNotifier_notify(m, "balance", None,
                                          MemberAccount_balance(c.balance), 0) >>
        /\ call' = Call("pay_balance", m, None, 0, amount)
        /\ ret' = None
        /\ UNCHANGED <<loans, policy>>

\* list_loans that looks the list up with setdefault, as checkout does
list_loans_setdefault(m) ==
    LET items == LoansGet(AccountName(m))
    IN  /\ ret' = [k \in 1 .. Len(items) |-> title(items[k])]
        /\ loans' = IF AccountName(m) \in DOMAIN loans
                    THEN loans
                    ELSE loans @@ (AccountName(m) :> << >>)
        /\ call' = Call("list_loans", m, None, 0, 0)
        /\ out' = << >>
        /\ UNCHANGED <<balance, policy>>

list_loans(m) ==
    LET items == LoansGet(AccountName(m))
    IN  /\ ret' = [k \in 1 .. Len(items) |-> title(items[k])]
        /\ call' = Call("list_loans", m, None, 0, 0)
        /\ out' = << >>
        /\ UNCHANGED <<balance, loans, policy>>

\* library.policy = <policy object>
set_policy(p) ==
    /\ policy' = p
    /\ call' = Call("set_policy", None, None, 0, 0)
    /\ ret' = None
    /\ out' = << >>
    /\ UNCHANGED <<balance, loans>>

----------------------------------------------------------------------------
(* The caller drives one Library: checkout -> return -> pay, in any order   *)

Next ==
    \/ \E m \in Members, i \in Items :
          Held < MaxLoans /\ checkout(m, i) /\ UNCHANGED aux
    \/ \E m \in Members, i \in Items, d \in DaysLate :
          /\ Owed + compute_fee(policy, i, d) <= Eighth * MaxBalance
          /\ return_item(m, i, d)
          /\ UNCHANGED aux
    \/ \E m \in Members, a \in Amounts : pay_balance(m, a) /\ UNCHANGED aux
    \/ \E m \in Members : list_loans(m) /\ UNCHANGED aux
    \/ \E p \in Policies : set_policy(p) /\ UNCHANGED aux

Spec == Init /\ [][Next]_vars

----------------------------------------------------------------------------
(* A caller that uses the MemberAccount objects alone                       *)

NextAccount ==
    \/ \E m \in Members, a \in Amounts :
          Owed + Max(a, 0) <= Eighth * MaxBalance /\ add_charge(m, a) /\ UNCHANGED aux
    \/ \E m \in Members, a \in Amounts : pay(m, a) /\ UNCHANGED aux

SpecAccount == Init /\ [][NextAccount]_vars

----------------------------------------------------------------------------
(* The fee functions on their own: self.policy.compute_fee(item, days_late) *)
(* applied to every policy object, item and lateness of the table           *)

InitFee ==
    /\ balance = [m \in Accounts |-> 0]
    /\ loans = << >>
    /\ policy \in Policies
    /\ \E i \in Items, d \in FeeDays : call = Call("args", None, i, d, 0)
    /\ ret = None
    /\ out = << >>
    /\ AuxInit

policy_compute_fee ==
    /\ call.op = "args"
    /\ ret' = compute_fee(policy, call.item, call.days)
    /\ call' = [call EXCEPT !.op = "compute_fee"]
    /\ UNCHANGED <<balance, loans, policy, out, aux>>

NextFee == policy_compute_fee

SpecFee == InitFee /\ [][NextFee]_vars

----------------------------------------------------------------------------
(* A scripted caller on a fresh library, as the demo (checkout, checkout,   *)
(* return, return) and test_multiple_loans_and_returns_invariants run it:   *)
(* one account checks out distinct items, then one account (the same or its *)
(* namesake) returns each of them once, in any order and with any lateness. *)
(* list_loans may be called at any point.                                   *)

CheckedOut(h) == {h[k].item : k \in {j \in 1 .. Len(h) : h[j].op = "checkout"}}

Returned(h) == {h[k].item : k \in {j \in 1 .. Len(h) : h[j].op = "return_item"}}

\* the accounts that made the calls named op so far
Callers(h, op) == {h[k].member : k \in {j \in 1 .. Len(h) : h[j].op = op}}

ScriptCheckout(m, item) ==
    /\ Returned(hist) = {}
    /\ item \notin CheckedOut(hist)
    /\ Callers(hist, "checkout") \subseteq {m}
    /\ checkout(m, item)
    /\ hist' = Append(hist, call')
    /\ UNCHANGED <<charged, paid, lock, thread>>

ScriptReturn(m, item, days_late) ==
    /\ item \in CheckedOut(hist) \ Returned(hist)
    /\ Callers(hist, "return_item") \subseteq {m}
    /\ return_item(m, item, days_late)
    /\ hist' = Append(hist, call')
    /\ UNCHANGED <<charged, paid, lock, thread>>

ScriptList(m) == list_loans(m) /\ UNCHANGED aux

NextScript ==
    \/ \E m \in SameName, i \in Catalogue : ScriptCheckout(m, i)
    \/ \E m \in SameName, i \in Catalogue, d \in DaysLate : ScriptReturn(m, i, d)
    \/ \E m \in SameName : ScriptList(m)

SpecScript == Init /\ [][NextScript]_vars

----------------------------------------------------------------------------
(* A bookkeeping caller: it drives the accounts through the Library only    *)
(* and keeps, per account, the total of the late fees its return_item calls *)
(* reported and the total of the payments the gateway accepted.             *)

TotalCharged == charged["alice"] + charged["alice2"] + charged["bob"]

LedgerCheckout(m, item) == checkout(m, item) /\ UNCHANGED aux

LedgerReturn(m, item, days_late) ==
    LET fee == compute_fee(policy, item, days_late)
    IN  /\ return_item(m, item, days_late)
        /\ charged' = [charged EXCEPT ![m] = @ + (IF fee > 0 THEN fee ELSE 0)]
        /\ UNCHANGED <<hist, paid, lock, thread>>

LedgerPay(m, amount) ==
    LET ok == ConsolePayment_charge(m, balance[m], amount).ret
    IN  /\ pay_balance(m, amount)
        /\ paid' = [paid EXCEPT ![m] = @ + (IF ok THEN amount ELSE 0)]
        /\ UNCHANGED <<hist, charged, lock, thread>>

LedgerList(m) == list_loans(m) /\ UNCHANGED aux

LedgerSetPolicy(p) == set_policy(p) /\ UNCHANGED aux

NextLedger ==
    \/ \E m \in Members, i \in Items : Held < MaxLoans /\ LedgerCheckout(m, i)
    \/ \E m \in Members, i \in Items, d \in DaysLate :
          /\ TotalCharged + compute_fee(policy, i, d) <= Eighth * MaxCharged
          /\ LedgerReturn(m, i, d)
    \/ \E m \in Members, a \in Amounts : LedgerPay(m, a)
    \/ \E m \in Members : LedgerList(m)
    \/ \E p \in Policies : LedgerSetPolicy(p)

SpecLedger == Init /\ [][NextLedger]_vars

----------------------------------------------------------------------------
(* Concurrent use: threads call add_charge and pay on shared accounts. A    *)
(* call takes the account's lock, runs the method statement by statement    *)
(* (the test, then the read and the write of the += or -=), and gives the   *)
(* lock back.  Threads on different accounts never wait for each other.     *)

\* what the add_charge calls that have started may still add
Pending ==
    LET add(t) == IF thread[t].op = "add_charge" /\ thread[t].amount > 0
                  THEN thread[t].amount ELSE 0
    IN  add("t1") + add("t2")

\* thread t calls op(amount) on account m
ThreadCall(t, op, m, amount) ==
    /\ thread[t].pc = "idle"
    /\ thread' = [thread EXCEPT ![t] =
                     [pc |-> "lock", op |-> op, m |-> m, amount |-> amount, tmp |-> 0]]
    /\ UNCHANGED <<balance, loans, policy, call, ret, out, hist, charged, paid, lock>>

\* with self._lock: entered once no other thread is inside
Acquire(t) ==
    /\ thread[t].pc = "lock"
    /\ lock[thread[t].m] = None
    /\ lock' = [lock EXCEPT ![thread[t].m] = t]
    /\ thread' = [thread EXCEPT ![t].pc = "check"]
    /\ UNCHANGED <<balance, loans, policy, call, ret, out, hist, charged, paid>>

\* if amount > 0:  /  if 0 < amount <= self.__balance:
CheckStep(t) ==
    LET c  == thread[t]
        ok == IF c.op = "pay" THEN pay_check(balance[c.m], c.amount)
                              ELSE add_charge_check(c.amount)
    IN  /\ c.pc = "check"
        /\ thread' = [thread EXCEPT ![t].pc = IF ok THEN "read" ELSE "unlock"]
        /\ UNCHANGED <<balance, loans, policy, call, ret, out, hist, charged, paid, lock>>

\* self.__balance += amount / -= amount: the load of the old value
ReadStep(t) ==
    /\ thread[t].pc = "read"
    /\ thread' = [thread EXCEPT ![t].pc = "write", ![t].tmp = balance[thread[t].m]]
    /\ UNCHANGED <<balance, loans, policy, call, ret, out, hist, charged, paid, lock>>

\* self.__balance += amount / -= amount: the store of the new value
WriteStep(t) ==
    LET c == thread[t]
    IN  /\ c.pc = "write"
        /\ balance' = [balance EXCEPT ![c.m] =
                          IF c.op = "pay" THEN c.tmp - c.amount ELSE c.tmp + c.amount]
        /\ thread' = [thread EXCEPT ![t].pc = "unlock"]
        /\ UNCHANGED <<loans, policy, call, ret, out, hist, charged, paid, lock>>

\* leaving the with block; the call returns
Release(t) ==
    /\ thread[t].pc = "unlock"
    /\ lock' = [lock EXCEPT ![thread[t].m] = None]
    /\ thread' = [thread EXCEPT ![t] = Idle]
    /\ UNCHANGED <<balance, loans, policy, call, ret, out, hist, charged, paid>>

NextConcurrent ==
    \/ \E t \in Threads, m \in Members, a \in Amounts :
          /\ Owed + Pending + Max(a, 0) <= Eighth * MaxBalance
          /\ ThreadCall(t, "add_charge", m, a)
    \/ \E t \in Threads, m \in Members, a \in Amounts : ThreadCall(t, "pay", m, a)
    \/ \E t \in Threads : Acquire(t)
    \/ \E t \in Threads : CheckStep(t)
    \/ \E t \in Threads : ReadStep(t)
    \/ \E t \in Threads : WriteStep(t)
    \/ \E t \in Threads : Release(t)

SpecConcurrent == Init /\ [][NextConcurrent]_vars

----------------------------------------------------------------------------
(* Properties of the MemberAccount ledger (SpecAccount)                     *)

\* C1: after any sequence of add_charge and pay calls with positive, zero or
\* negative amounts on fresh accounts, balance() >= 0 for every account.
C1_BalanceNeverNegative ==
    \A m \in Accounts : MemberAccount_balance(balance[m]) >= 0

\* a payment of the whole balance was accepted and left exactly zero
C1_Witness ==
    /\ call.op = "pay"
    /\ call.amount > 0
    /\ ret = TRUE
    /\ balance[call.member] = 0

\* C2: pay(amount) returns True and lowers the balance by exactly amount iff
\* 0 < amount <= balance; otherwise it returns False and leaves every
\* balance as it was.  It always returns a boolean (it never raises).
C2_PayGate ==
    [][call'.op = "pay" =>
         LET m == call'.member
             a == call'.amount
         IN  /\ ret' \in BOOLEAN
             /\ ret' = (0 < a /\ a <= balance[m])
             /\ ret' => balance' = [balance EXCEPT ![m] = balance[m] - a]
             /\ ~ret' => balance' = balance]_vars

\* an overpayment (amount above a positive balance) was rejected
C2_Witness ==
    /\ call.op = "pay"
    /\ ret = FALSE
    /\ balance[call.member] > 0
    /\ call.amount > balance[call.member]

\* C3: add_charge(amount) raises the balance by exactly amount when
\* amount > 0 and changes nothing when amount <= 0, returning normally;
\* so add_charge never lowers a balance, and a balance only ever drops in a
\* pay call that returned True for that account.
C3_ChargeOnlyAdds ==
    [][/\ call'.op = "add_charge" =>
            LET m == call'.member
                a == call'.amount
            IN  /\ ret' = None
                /\ a > 0  => balance' = [balance EXCEPT ![m] = balance[m] + a]
                /\ a <= 0 => balance' = balance
       /\ \A m \in Accounts :
            balance'[m] < balance[m] =>
                call'.op = "pay" /\ call'.member = m /\ ret' = TRUE]_vars

\* a negative charge was offered to an account that owes something
C3_Witness ==
    /\ call.op = "add_charge"
    /\ call.amount < 0
    /\ balance[call.member] > 0

----------------------------------------------------------------------------
(* Properties of the fee functions (SpecFee)                                *)

\* the per-day rates the claims quote: 0.25 for a Book, 0.75 for a DVD
QuotedRate(i) == IF ItemClass(i) = "Book" THEN 2 * Eighth ELSE 6 * Eighth

\* C4: StandardPolicy.compute_fee(item, days_late) is 0 when days_late <= 0
\* and days_late * rate otherwise (rate 0.25 for Book, 0.75 for DVD).
C4_StandardFee ==
    (call.op = "compute_fee" /\ policy = "StandardPolicy") =>
        ret = IF call.days <= 0 THEN 0 ELSE call.days * QuotedRate(call.item)

\* the DVD three days late costs 2.25
C4_Witness ==
    /\ call.op = "compute_fee"
    /\ policy = "StandardPolicy"
    /\ call.item = "matrix"
    /\ call.days = 3
    /\ ret = 18 * Eighth

\* C5: ChildrenPolicy.compute_fee(item, days_late) equals
\* StandardPolicy.compute_fee(item, max(0, days_late - 2)) for every item
\* and every days_late, negative ones included; the first 2 late days are
\* free.
C5_ChildrenIsShiftedStandard ==
    (call.op = "compute_fee" /\ policy = "ChildrenPolicy") =>
        /\ ret = StandardPolicy_compute_fee(call.item, Max(0, call.days - 2))
        /\ call.days <= 2 => ret = 0

\* the third late day is the first one charged
C5_Witness ==
    /\ call.op = "compute_fee"
    /\ policy = "ChildrenPolicy"
    /\ call.days = 3
    /\ ret = late_fee_per_day(call.item)

----------------------------------------------------------------------------
(* Properties of the Library (Spec)                                         *)

\* the list a loans dict holds under a name ([] when the key is absent)
ListOf(d, name) == IF name \in DOMAIN d THEN d[name] ELSE << >>

Count(items, x) == Cardinality({k \in 1 .. Len(items) : items[k] = x})

Titles(items) == {title(items[k]) : k \in 1 .. Len(items)}

\* items with its k-th entry taken out, the rest in their order
Without(items, k) ==
    [j \in 1 .. (Len(items) - 1) |-> IF j < k THEN items[j] ELSE items[j + 1]]

\* the step is return_item(X, 0) by the member whose previous call was
\* checkout(X)
CheckoutThenReturnOnTime ==
    /\ call.op = "checkout"
    /\ call'.op = "return_item"
    /\ call'.member = call.member
    /\ call'.item = call.item
    /\ call'.days = 0

\* C6: under either policy the fee is >= 0 for every item and every
\* days_late (negative, zero, positive), so a return_item never lowers the
\* member's balance and leaves balance() >= 0.
C6_FeeNeverNegative ==
    [][call'.op = "return_item" =>
         LET m == call'.member
         IN  /\ \A p \in Policies : compute_fee(p, call'.item, call'.days) >= 0
             /\ balance'[m] >= balance[m]
             /\ \A a \in Accounts : a # m => balance'[a] = balance[a]
             /\ MemberAccount_balance(balance'[m]) >= 0]_vars

\* an early return (negative days_late) under ChildrenPolicy by a member who
\* owes something
C6_Witness ==
    /\ call.op = "return_item"
    /\ call.days < 0
    /\ policy = "ChildrenPolicy"
    /\ balance[call.member] > 0

\* C7 as stated: from any library state, checkout(X) followed by
\* return_item(X, 0) leaves X out of list_loans(member) and the balance
\* unchanged.
C7_Original ==
    [][CheckoutThenReturnOnTime =>
         /\ title(call'.item) \notin
                Titles(ListOf(loans', AccountName(call'.member)))
         /\ balance' = balance]_vars

\* C7 amended: checkout(X) followed by return_item(X, 0) takes exactly one
\* entry X out of the member's list (X is gone from list_loans when the
\* list held no X before the checkout) and leaves every balance unchanged
\* across both calls.
C7_CheckoutReturnOnTime ==
    [][/\ call'.op = "checkout" => balance' = balance
       /\ CheckoutThenReturnOnTime =>
            LET X  == call'.item
                L  == ListOf(loans, AccountName(call'.member))
                L2 == ListOf(loans', AccountName(call'.member))
            IN  /\ balance' = balance
                /\ Len(L2) = Len(L) - 1
                /\ Count(L2, X) = Count(L, X) - 1
                /\ Count(L, X) = 1 =>
                       /\ ~Contains(L2, X)
                       /\ title(X) \notin Titles(L2)]_vars

\* an on-time return emptied a list that a checkout had created, nothing owed
C7_Witness ==
    /\ call.op = "return_item"
    /\ call.days = 0
    /\ AccountName(call.member) \in DOMAIN loans
    /\ loans[AccountName(call.member)] = << >>
    /\ out[1].kind = "no_fee"
    /\ Owed = 0

\* C8: return_item removes exactly the first occurrence of the item from
\* the member's list when it is there, keeping every other entry (later
\* duplicates included) in order; when the item is absent the loans are
\* left as they were and the call returns normally.  checkout appends at
\* the end, whether or not the item is already in the list.
C8_RemoveFirstAppendLast ==
    [][/\ call'.op = "return_item" =>
            LET name == AccountName(call'.member)
                X    == call'.item
                L    == ListOf(loans, name)
            IN  /\ ret' = None
                /\ IF Contains(L, X)
                   THEN \E k \in 1 .. Len(L) :
                          /\ L[k] = X
                          /\ \A j \in 1 .. (k - 1) : L[j] # X
                          /\ loans' = [loans EXCEPT ![name] = Without(L, k)]
                   ELSE loans' = loans
       /\ call'.op = "checkout" =>
            LET name == AccountName(call'.member)
            IN  /\ ret' = None
                /\ DOMAIN loans' = DOMAIN loans \cup {name}
                /\ loans'[name] = Append(ListOf(loans, name), call'.item)
                /\ \A n \in DOMAIN loans : n # name => loans'[n] = loans[n]]_vars

\* the returned item is still in the list, behind another item: the list
\* held it twice and the first copy went
C8_Witness ==
    /\ call.op = "return_item"
    /\ LET L == ListOf(loans, AccountName(call.member))
       IN  /\ Len(L) = 2
           /\ L[1] # call.item
           /\ L[2] = call.item

\* C9: return_item removes the item (if held) whatever the fee; then, if the
\* policy's fee is > 0, it adds exactly that fee to the member's balance and
\* sends one notification with the fee and the balance after the charge,
\* else it leaves the balance alone and sends one 'no fee' notification.
\* Exactly one notification per call.
C9_ReturnChargesAndNotifiesOnce ==
    [][call'.op = "return_item" =>
         LET m    == call'.member
             name == AccountName(m)
             X    == call'.item
             fee  == compute_fee(policy, X, call'.days)
             L    == ListOf(loans, name)
             L2   == ListOf(loans', name)
         IN  /\ Len(L2) = Len(L) - (IF Contains(L, X) THEN 1 ELSE 0)
             /\ Count(L2, X) = Count(L, X) - (IF Contains(L, X) THEN 1 ELSE 0)
             /\ Len(out') = 1
             /\ out'[1].chan = "Email"
             /\ out'[1].to = name
             /\ out'[1].title = title(X)
             /\ IF fee > 0
                THEN /\ balance' = [balance EXCEPT ![m] = balance[m] + fee]
                     /\ out'[1].kind = "late_fee"
                     /\ out'[1].a = Round2(fee)
                     /\ out'[1].b = Round2(balance'[m])
                ELSE /\ balance' = balance
                     /\ out'[1].kind = "no_fee"]_vars

\* a late fee was charged to a member who already owed something and the
\* one notification shows the new balance
C9_Witness ==
    /\ call.op = "return_item"
    /\ Len(out) = 1
    /\ out[1].kind = "late_fee"
    /\ out[1].a > 0
    /\ out[1].b = Round2(balance[call.member])
    /\ out[1].b > out[1].a

\* C10: pay_balance hands the amount to payments.charge and then sends
\* exactly one notification with the balance as it is after the attempt,
\* whether the charge went through or not; a failed charge changes nothing
\* else, the call returns normally and every operation stays available.
C10_PayBalanceAlwaysNotifies ==
    /\ [][call'.op = "pay_balance" =>
            LET m    == call'.member
                name == AccountName(m)
                a    == call'.amount
                ok   == 0 < a /\ a <= balance[m]
            IN  /\ balance' = IF ok THEN [balance EXCEPT ![m] = balance[m] - a]
                                     ELSE balance
                /\ Len(out') = 2
                /\ out'[1] = Line("Payment", name, IF ok THEN "OK" ELSE "FAILED",
                                  None, Round2(a), 0)
                /\ out'[2] = Line("Email", name, "balance", None,
                                  Round2(balance'[m]), 0)
                /\ ret' = None
                /\ UNCHANGED <<loans, policy>>]_vars
    /\ [](call.op = "pay_balance" =>
            \A m \in Members :
                /\ ENABLED checkout(m, "moby")
                /\ ENABLED return_item(m, "moby", 1)
                /\ ENABLED pay_balance(m, Eighth))

\* an overpayment failed and the notification still reports the balance owed
C10_Witness ==
    /\ call.op = "pay_balance"
    /\ Len(out) = 2
    /\ out[1].kind = "FAILED"
    /\ out[2].chan = "Email"
    /\ out[2].a = Round2(balance[call.member])
    /\ balance[call.member] > 0
    /\ call.amount > balance[call.member]

\* C11: the payment path never bypasses pay's gate: ConsolePayment.charge
\* returns (and reports) exactly what member.pay returns, and a pay_balance
\* call changes the member's balance only when 0 < amount <= balance, by
\* exactly -amount; with amount <= 0 or amount > balance every balance is
\* as before.
C11_ChargeGoesThroughPay ==
    /\ [](\A m \in Members, a \in Amounts :
            LET c == ConsolePayment_charge(m, balance[m], a)
                p == MemberAccount_pay(balance[m], a)
            IN  c.ret = p.ret /\ c.balance = p.balance)
    /\ [][call'.op = "pay_balance" =>
            LET m == call'.member
                a == call'.amount
            IN  /\ out'[1].chan = "Payment"
                /\ out'[1].kind = IF MemberAccount_pay(balance[m], a).ret
                                  THEN "OK" ELSE "FAILED"
                /\ balance'[m] # balance[m] =>
                       /\ 0 < a
                       /\ a <= balance[m]
                       /\ balance'[m] = balance[m] - a
                /\ (a <= 0 \/ a > balance[m]) => balance' = balance
                /\ \A o \in Accounts : o # m => balance'[o] = balance[o]]_vars

\* a part payment went through and the member still owes the rest
C11_Witness ==
    /\ call.op = "pay_balance"
    /\ out[1].kind = "OK"
    /\ call.amount > 0
    /\ balance[call.member] > 0

\* the titles of a list, in list order
TitleSeq(items) == [k \in 1 .. Len(items) |-> title(items[k])]

\* C12: list_loans(member) returns the titles of exactly the items the
\* member holds, in checkout order, and reads only: no loan list, balance or
\* policy changes, nothing is printed, so the result is a function of the
\* loans and a repeated call returns the same sequence; a member without an
\* entry gets the empty sequence and still has no entry.
C12_ListLoansReadOnly ==
    /\ [](call.op = "list_loans" =>
            ret = TitleSeq(ListOf(loans, AccountName(call.member))))
    /\ [][call'.op = "list_loans" =>
            LET name == AccountName(call'.member)
            IN  /\ ret' = TitleSeq(ListOf(loans, name))
                /\ Len(ret') = Len(ListOf(loans, name))
                /\ UNCHANGED <<balance, loans, policy>>
                /\ out' = << >>
                /\ name \notin DOMAIN loans =>
                       ret' = << >> /\ name \notin DOMAIN loans'
                /\ (call.op = "list_loans" /\ call.member = call'.member) =>
                       ret' = ret]_vars

\* the DVD was checked out before the book and is listed first
C12_Witness ==
    /\ call.op = "list_loans"
    /\ ret = << "The Matrix", "Moby Dick" >>
    /\ loans[AccountName(call.member)] = << "matrix", "moby" >>

\* the fee of the policy object the library holds at the time of the call
FeeUnder(p, i, d) ==
    IF p = "StandardPolicy" THEN StandardPolicy_compute_fee(i, d)
                            ELSE ChildrenPolicy_compute_fee(i, d)

\* C13: assigning library.policy changes no balance and no loan list (fees
\* charged earlier stay as charged), and every return_item call, for any
\* member, charges the fee of the policy the library holds when the call is
\* made, so after a swap the new policy alone decides; return_item itself
\* leaves the policy alone.
C13_PolicySwap ==
    [][/\ call'.op = "set_policy" => UNCHANGED <<balance, loans>>
       /\ call'.op = "return_item" =>
            LET m   == call'.member
                fee == FeeUnder(policy, call'.item, call'.days)
            IN  /\ policy' = policy
                /\ balance' = [balance EXCEPT ![m] = balance[m] + fee]
                /\ out'[1].kind = IF fee > 0 THEN "late_fee" ELSE "no_fee"
                /\ fee > 0 => out'[1].a = Round2(fee)]_vars

\* the policy was just swapped to ChildrenPolicy while fees are owed and
\* items are on loan
C13_Witness ==
    /\ call.op = "set_policy"
    /\ policy = "ChildrenPolicy"
    /\ Owed > 0
    /\ Held > 0

\* C17: the fee does not depend on the item being on loan.  return_item for
\* an item that is not in the member's list (never checked out, or already
\* returned) leaves the loans as they are and still adds a positive fee to
\* the member's balance; so the same late return made twice in a row
\* charges the fee both times.
C17_FeeWithoutLoan ==
    [][call'.op = "return_item" =>
         LET m   == call'.member
             X   == call'.item
             fee == FeeUnder(policy, X, call'.days)
         IN  /\ ~Contains(ListOf(loans, AccountName(m)), X) =>
                    /\ loans' = loans
                    /\ fee > 0 => /\ balance'[m] = balance[m] + fee
                                   /\ out'[1].kind = "late_fee"
             /\ (/\ call.op = "return_item"
                 /\ call.member = m
                 /\ call.item = X
                 /\ fee > 0) => balance'[m] = balance[m] + fee]_vars

\* a member under whose name nothing was ever checked out was charged a
\* late fee
C17_Witness ==
    /\ call.op = "return_item"
    /\ AccountName(call.member) \notin DOMAIN loans
    /\ out[1].kind = "late_fee"
    /\ balance[call.member] > 0

\* the dict key of an account, written out
KeyOf(m) == IF m = "bob" THEN "Bob" ELSE "Alice"

\* C19: members with different names are independent.  A checkout,
\* return_item, pay_balance or list_loans for member A changes neither the
\* list stored under another name (nor creates or drops its entry) nor the
\* balance of any other account; checkout and list_loans change no balance
\* and pay_balance changes no loan list.
C19_MembersIndependent ==
    [][call'.op \in {"checkout", "return_item", "pay_balance", "list_loans"} =>
         LET m == call'.member
         IN  /\ \A o \in Accounts : o # m => balance'[o] = balance[o]
             /\ \A n \in {"Alice", "Bob"} :
                    n # KeyOf(m) =>
                       /\ (n \in DOMAIN loans') = (n \in DOMAIN loans)
                       /\ ListOf(loans', n) = ListOf(loans, n)
             /\ call'.op \in {"checkout", "list_loans"} => balance' = balance
             /\ call'.op = "pay_balance" => loans' = loans]_vars

\* Alice was charged a late fee while Bob owes money and holds an item
C19_Witness ==
    /\ call.op = "return_item"
    /\ call.member = "alice"
    /\ out[1].kind = "late_fee"
    /\ balance["bob"] > 0
    /\ Len(ListOf(loans, "Bob")) > 0
----------------------------------------------------------------------------
(* Properties of scripted callers (SpecScript)                              *)

\* every item the script checked out has been returned
AllReturned == CheckedOut(hist) # {} /\ Returned(hist) = CheckedOut(hist)

\* C14: after a member has checked out distinct items and returned each of
\* them exactly once, in any order and with any lateness, the member's loan
\* list is empty, list_loans returns the empty sequence, and balance() of the
\* account is not negative.
C14_AllReturnedLeavesNoLoans ==
    AllReturned =>
        /\ ListOf(loans, "Alice") = << >>
        /\ call.op = "list_loans" => ret = << >>
        /\ \A m \in SameName : MemberAccount_balance(balance[m]) >= 0

\* one account checked out three items and returned them in another order,
\* late, on time and early, as the test does
C14_Witness ==
    /\ AllReturned
    /\ Len(hist) = 2 * Cardinality(Catalogue)
    /\ \A k \in 1 .. Len(hist) : hist[k].member = "alice"
    /\ hist[4].item = hist[2].item
    /\ hist[5].item = hist[1].item
    /\ hist[4].days = MaxLate /\ hist[5].days = 0 /\ hist[6].days = 0 - 1
    /\ call.op = "list_loans" /\ call.member = "alice" /\ ret = << >>
    /\ balance["alice"] > 0

\* days_late of the demo's two returns
DemoDaysLate == 3

\* the demo's calls up to its second return
DemoCalls ==
    << Call("checkout", "alice", "moby", 0, 0),
       Call("checkout", "alice", "matrix", 0, 0),
       Call("return_item", "alice", "moby", DemoDaysLate, 0),
       Call("return_item", "alice", "matrix", DemoDaysLate, 0) >>

\* the script has made exactly the first n calls of the demo
DemoAt(n) == policy = "StandardPolicy" /\ hist = SubSeq(DemoCalls, 1, n)

\* C15: the reference scenario under StandardPolicy.  After checking out
\* "Moby Dick" and "The Matrix" for Alice the list is ["Moby Dick", "The
\* Matrix"]; returning Moby Dick 3 days late charges 0.75 and leaves balance
\* 0.75; returning The Matrix 3 days late then charges 2.25 and leaves 3.00.
C15_ReferenceScenario ==
    /\ DemoAt(2) =>
          /\ TitleSeq(ListOf(loans, "Alice")) = << "Moby Dick", "The Matrix" >>
          /\ call.op = "list_loans" => ret = << "Moby Dick", "The Matrix" >>
    /\ DemoAt(3) =>
          /\ MemberAccount_balance(balance["alice"]) = 75 * Penny
          /\ call = hist[3] => out = << Line("Email", "Alice", "late_fee",
                                            "Moby Dick", 75 * Penny, 75 * Penny) >>
    /\ DemoAt(4) =>
          /\ MemberAccount_balance(balance["alice"]) = 300 * Penny
          /\ call = hist[4] => out = << Line("Email", "Alice", "late_fee",
                                            "The Matrix", 225 * Penny, 300 * Penny) >>

C15_Witness ==
    /\ DemoAt(4)
    /\ call = hist[4]
    /\ balance["alice"] = 300 * Penny
    /\ loans["Alice"] = << >>

\* the items the script checked out and has not returned, in checkout order
Outstanding(h) ==
    LET co == SelectSeq(h, LAMBDA c : c.op = "checkout")
    IN  SelectSeq([k \in 1 .. Len(co) |-> co[k].item], LAMBDA i : i \notin Returned(h))

RECURSIVE FeesOf(_, _)
\* the fees of the returns that passed account m, under the library's policy
FeesOf(h, m) ==
    IF h = << >> THEN 0
    ELSE LET c == h[Len(h)]
         IN  FeesOf(SubSeq(h, 1, Len(h) - 1), m)
             + (IF c.op = "return_item" /\ c.member = m
                THEN FeeUnder(policy, c.item, c.days) ELSE 0)

\* C18: loan lists are keyed by member name while balances live in the
\* account object.  Two account objects named Alice share the one list under
\* "Alice": it holds what either of them checked out and neither has
\* returned, and list_loans through either object returns it.  The late fee
\* of a return is charged to the account object passed to return_item,
\* whoever checked the item out.
C18_SameNameSharesLoans ==
    /\ DOMAIN loans \subseteq {"Alice"}
    /\ ListOf(loans, "Alice") = Outstanding(hist)
    /\ call.op = "list_loans" => ret = TitleSeq(Outstanding(hist))
    /\ \A m \in SameName : balance[m] = FeesOf(hist, m)

\* alice checked an item out, alice2 returned it late and was charged
C18_Witness ==
    /\ Len(hist) = 2
    /\ hist[1].op = "checkout" /\ hist[1].member = "alice"
    /\ hist[2].op = "return_item" /\ hist[2].member = "alice2"
    /\ hist[2].item = hist[1].item
    /\ hist[2].days = MaxLate
    /\ call = hist[2]
    /\ ListOf(loans, "Alice") = << >>
    /\ balance["alice"] = 0
    /\ balance["alice2"] > 0
----------------------------------------------------------------------------
(* Properties of the bookkeeping caller (SpecLedger)                        *)

\* C20: ledger conservation.  For an account driven only through the
\* Library, the balance always equals the sum of the positive fees its
\* return_item calls charged minus the sum of the amounts of its pay_balance
\* calls whose charge succeeded; a failed payment and a zero-fee return
\* change neither side.
C20_LedgerConservation ==
    /\ [](\A m \in Accounts : balance[m] = charged[m] - paid[m])
    /\ [][/\ (call'.op = "pay_balance" /\ out'[1].kind = "FAILED")
              => (balance' = balance /\ charged' = charged /\ paid' = paid)
          /\ (call'.op = "return_item" /\ out'[1].kind = "no_fee")
              => (balance' = balance /\ charged' = charged /\ paid' = paid)]_vars

\* an account that was charged and has paid part of it has a payment refused
C20_Witness ==
    /\ call.op = "pay_balance" /\ call.member = "alice"
    /\ out[1].kind = "FAILED"
    /\ paid["alice"] > 0
    /\ charged["alice"] > paid["alice"]
    /\ charged["bob"] > 0
----------------------------------------------------------------------------
(* Properties of concurrent use (SpecConcurrent)                            *)

\* the threads that are inside a with-lock block
Inside == {t \in Threads : thread[t].pc \in {"check", "read", "write", "unlock"}}

\* C16: when several threads call add_charge and pay on shared accounts,
\* with pay's test and its decrement separate steps, one lock per account
\* held around each call keeps every balance >= 0 in every interleaving; the
\* lock is per account only, so a call on one account never waits for a
\* call on another.
C16_LockPerAccountKeepsBalance ==
    /\ \A m \in Accounts : balance[m] >= 0 /\ MemberAccount_balance(balance[m]) >= 0
    /\ \A t \in Threads, u \in Threads :
          (t \in Inside /\ u \in Inside /\ t # u) => thread[t].m # thread[u].m

\* both threads are between pay's test and its store at once, one paying
\* off all of alice's balance and the other all of bob's
C16_Witness ==
    /\ thread["t1"].pc = "write" /\ thread["t1"].op = "pay" /\ thread["t1"].m = "alice"
    /\ thread["t2"].pc = "write" /\ thread["t2"].op = "pay" /\ thread["t2"].m = "bob"
    /\ thread["t1"].amount = balance["alice"]
    /\ thread["t2"].amount = balance["bob"]
    /\ lock["alice"] = "t1" /\ lock["bob"] = "t2"

============================================================================
